---- MODULE Spec2Model ----
(***************************************************************************)
(* Model of proliantutils/hpsum/hpsum_controller.py: the hpsum firmware    *)
(* update of a node through the iLO virtual media (update_firmware), the   *)
(* execution of the hpsum utility (_execute_hpsum) and the classification  *)
(* of its exit code and log file (_parse_hpsum_ouput).                     *)
(***************************************************************************)
EXTENDS Integers, Sequences, FiniteSets, TLC

VARIABLES
    pc,                 \* position of update_firmware
    cdrom,              \* content of the iLO CDROM virtual media slot
    by_label,           \* listing of /dev/disk/by-label/ seen by os.listdir
    vmedia_device_file, \* local of update_firmware (Unbound until assigned)
    dir_exists,         \* the directory made by tempfile.mkdtemp exists
    mounted,            \* the device is mounted on vmedia_mount_point
    log_exists,         \* os.path.exists(OUTPUT_FILE)
    log_data,           \* content of OUTPUT_FILE
    exit_code,          \* exit code of the hpsum process (NotRun before)
    result,             \* local of update_firmware (Unbound until assigned)
    exc,                \* exception in flight or raised to the caller
    returned,           \* value update_firmware returned to its caller
    trace,              \* the external calls performed so far, in order
    own_log,            \* the log state the hpsum process of this run left
    other,              \* locals of a second, suspended run of update_firmware
    parsed,             \* values returned by direct calls of the classifier
    log_origin          \* the component sections the log was written from

vars == <<pc, cdrom, by_label, vmedia_device_file, dir_exists, mounted,
          log_exists, log_data, exit_code, result, exc, returned, trace,
          own_log, other, parsed, log_origin>>

----------------------------------------------------------------------------
(* Bounds of the model.                                                    *)

\* longest log file, in tokens of LogTokens
MaxLogTokens == 3
\* most entries in the by-label directory
MaxEntries == 2
\* most component sections between the markers of a generated log
MaxSegments == 3
\* most direct calls of the classifier on one log
MaxParseCalls == 2
\* most component sections of a log written while two runs are interleaved
MaxTwoRunSegments == 1

----------------------------------------------------------------------------
(* Python values.                                                          *)

None == [t |-> "None", s |-> ""]
Str(s) == [t |-> "str", s |-> s]
Unbound == [t |-> "unbound", s |-> ""]
NotRun == 0 - 1

NoExc == [type |-> "none", reason |-> ""]
HpsumOperationError(reason) == [type |-> "HpsumOperationError", reason |-> reason]
IloError == [type |-> "IloError", reason |-> "iLO operation failed"]
IloConnectionError == [type |-> "IloConnectionError", reason |-> "iLO connection failed"]
UnboundLocalError == [type |-> "UnboundLocalError",
                      reason |-> "local variable 'vmedia_device_file' referenced before assignment"]

\* bool(value) of a Python value: None and the empty string are false
Truthy(v) == v.t = "str" /\ v.s # ""

\* str.find: 0-based index of the first occurrence of sub in s, or -1
Find(s, sub) ==
    LET hits == {i \in 0..(Len(s) - Len(sub)) : SubSeq(s, i + 1, i + Len(sub)) = sub}
    IN IF hits = {} THEN 0 - 1
       ELSE CHOOSE i \in hits : \A j \in hits : i <= j

\* s[a:b] with Python's treatment of negative and out-of-range indices
SliceIndex(i, n) ==
    IF i < 0 THEN (IF i + n < 0 THEN 0 ELSE i + n)
    ELSE IF i > n THEN n ELSE i

Slice(s, a, b) ==
    LET lo == SliceIndex(a, Len(s))
        hi == SliceIndex(b, Len(s))
    IN IF lo >= hi THEN "" ELSE SubSeq(s, lo + 1, hi)

\* re.split(sep, s) for a literal separator
RECURSIVE ReSplit(_, _)
ReSplit(sep, s) ==
    LET i == Find(s, sep)
    IN IF i < 0 THEN <<s>>
       ELSE <<Slice(s, 0, i)>> \o ReSplit(sep, Slice(s, i + Len(sep), Len(s)))

\* fnmatch.fnmatch(file, 'SPP*')
FnmatchSPP(file) == Len(file) >= 3 /\ SubSeq(file, 1, 3) = "SPP"

----------------------------------------------------------------------------
(* Module constants.                                                       *)

HPSUM_LOCATION == "hp/swpackages/hpsum"

EXIT_CODE_TO_STRING(code) ==
    CASE code = 0 -> "The smart component was installed successfully."
      [] code = 1 -> "The smart component was installed successfully, but the system must be restarted."
      [] code = 3 -> "The smart component was not installed. Node is already up-to-date."
      [] code = 253 -> "The installation of the component failed."

----------------------------------------------------------------------------
(* _parse_hpsum_ouput(exit_code): reads OUTPUT_FILE.                       *)

RECURSIVE CountSegments_no_empty_check(_, _, _)
\* variant: the `if line:` test is missing, empty segments count as failed
CountSegments_no_empty_check(segs, success, failed) ==
    IF segs = <<>> THEN <<success, failed>>
    ELSE IF Find(Head(segs), "Success") < 0
         THEN CountSegments_no_empty_check(Tail(segs), success, failed + 1)
         ELSE CountSegments_no_empty_check(Tail(segs), success + 1, failed)

RECURSIVE CountSegments(_, _, _)
\* the for loop over the segments: <<success, failed>>
CountSegments(segs, success, failed) ==
    IF segs = <<>> THEN <<success, failed>>
    ELSE LET line == Head(segs)
         IN IF line # ""
            THEN IF Find(line, "Success") < 0
                 THEN CountSegments(Tail(segs), success, failed + 1)
                 ELSE CountSegments(Tail(segs), success + 1, failed)
            ELSE CountSegments(Tail(segs), success, failed)

RetData(output_data) ==
    Slice(output_data,
          Find(output_data, "Deployed Components:") + Len("Deployed Components:"),
          Find(output_data, "Exit status:"))

\* variant: exit code 3 is handled with 0, 1 and 253 and reads the log
_parse_hpsum_ouput_code3_stats(code, exists, output_data) ==
    IF code \in {0, 1, 3, 253}
    THEN IF exists
         THEN LET counts == CountSegments(ReSplit("\n\n", RetData(output_data)), 0, 0)
                  success == counts[1]
                  failed == counts[2]
              IN Str("Summary: " \o EXIT_CODE_TO_STRING(code)
                     \o " Status of updated components: Total: "
                     \o ToString(success + failed)
                     \o " Success: " \o ToString(success)
                     \o " Failed: " \o ToString(failed) \o ".")
         ELSE Str("UPDATE STATUS: UNKNOWN")
    ELSE None

\* variant: the final return is outside the `if exit_code in (0, 1, 253)`
\* block, so every other exit code is classified as unknown status
_parse_hpsum_ouput_fallthrough(code, exists, output_data) ==
    IF code = 3 THEN Str("Summary: " \o EXIT_CODE_TO_STRING(code))
    ELSE IF code \in {0, 1, 253} /\ exists
    THEN LET counts == CountSegments(ReSplit("\n\n", RetData(output_data)), 0, 0)
             success == counts[1]
             failed == counts[2]
         IN Str("Summary: " \o EXIT_CODE_TO_STRING(code)
                \o " Status of updated components: Total: "
                \o ToString(success + failed)
                \o " Success: " \o ToString(success)
                \o " Failed: " \o ToString(failed) \o ".")
    ELSE Str("UPDATE STATUS: UNKNOWN")

_parse_hpsum_ouput(code, exists, output_data) ==
    IF code = 3 THEN Str("Summary: " \o EXIT_CODE_TO_STRING(code))
    ELSE IF code \in {0, 1, 253}
    THEN IF exists
         THEN LET counts == CountSegments(ReSplit("\n\n", RetData(output_data)), 0, 0)
                  success == counts[1]
                  failed == counts[2]
              IN Str("Summary: " \o EXIT_CODE_TO_STRING(code)
                     \o " Status of updated components: Total: "
                     \o ToString(success + failed)
                     \o " Success: " \o ToString(success)
                     \o " Failed: " \o ToString(failed) \o ".")
         ELSE Str("UPDATE STATUS: UNKNOWN")
    ELSE None

----------------------------------------------------------------------------
(* _execute_hpsum: the outcome for a process that exited with `code`.      *)

\* str(e) of the ProcessExecutionError raised by processutils.execute
ProcessExecutionError(cmd, code) ==
    "Unexpected error while running command. Command: " \o cmd
    \o " Exit code: " \o ToString(code)

\* variant: a failed installation (253) is raised instead of returned
_execute_hpsum_strict(hpsum_file_path, code, exists, output_data) ==
    IF code = 0
    THEN [raised |-> FALSE, value |-> None, error |-> NoExc]
    ELSE LET res == _parse_hpsum_ouput(code, exists, output_data)
         IN IF Truthy(res) /\ code # 253
            THEN [raised |-> FALSE, value |-> res, error |-> NoExc]
            ELSE [raised |-> TRUE, value |-> None,
                  error |-> HpsumOperationError(
                      "Unable to perform hpsum firmware update on the node. Error: "
                      \o ProcessExecutionError(hpsum_file_path, code))]

_execute_hpsum(hpsum_file_path, code, exists, output_data) ==
    IF code = 0
    THEN [raised |-> FALSE, value |-> None, error |-> NoExc]
    ELSE LET res == _parse_hpsum_ouput(code, exists, output_data)
         IN IF Truthy(res)
            THEN [raised |-> FALSE, value |-> res, error |-> NoExc]
            ELSE [raised |-> TRUE, value |-> None,
                  error |-> HpsumOperationError(
                      "Unable to perform hpsum firmware update on the node. Error: "
                      \o ProcessExecutionError(hpsum_file_path, code))]

----------------------------------------------------------------------------
(* The environment of one run.                                             *)

\* exit codes the hpsum process may end with
ExitCodes == {0, 1, 2, 3, 42, 253}

\* pieces a log file is made of
LogTokens == {"Deployed Components:", "Exit status:", "Success", "Failed",
              "\n\n", "\n"}

RECURSIVE LogsOfLen(_)
LogsOfLen(n) ==
    IF n = 0 THEN {""}
    ELSE {t \o l : t \in LogTokens, l \in LogsOfLen(n - 1)}

Logs == UNION {LogsOfLen(n) : n \in 0..MaxLogTokens}

\* names an entry of /dev/disk/by-label/ may have
Labels == {"SPP-2024", "SPP-2023", "OTHER-1"}

\* listings of the directory: distinct names in any order
Listings ==
    {l \in UNION {[1..n -> Labels] : n \in 0..MaxEntries} :
        \A i, j \in 1..Len(l) : i # j => l[i] # l[j]}

\* the directory tempfile.mkdtemp creates
vmedia_mount_point == "/tmp/tmpdir"

Event(op, ok) == [op |-> op, ok |-> ok]

\* no log written by the hpsum process of this run (yet)
NoLog == [exists |-> FALSE, data |-> ""]

\* a log whose component sections are not known
NoOrigin == [structured |-> FALSE, segs |-> <<>>]

\* the locals of a run of update_firmware that has not performed any step
FreshRun ==
    [pc |-> "validate_href", cdrom |-> "other", vmedia_device_file |-> Unbound,
     dir_exists |-> FALSE, mounted |-> FALSE, exit_code |-> NotRun,
     result |-> Unbound, exc |-> NoExc, returned |-> Unbound,
     trace |-> <<>>, own_log |-> NoLog]

----------------------------------------------------------------------------
(* update_firmware(node), one action per statement that calls out.         *)

Init ==
    /\ pc = "validate_href"
    /\ cdrom = "other"
    /\ by_label = <<>>
    /\ vmedia_device_file = Unbound
    /\ dir_exists = FALSE
    /\ mounted = FALSE
    /\ log_exists \in BOOLEAN
    /\ log_data = ""
    /\ exit_code = NotRun
    /\ result = Unbound
    /\ exc = NoExc
    /\ returned = Unbound
    /\ trace = <<>>
    /\ own_log = NoLog
    /\ other = FreshRun
    /\ parsed = <<>>
    /\ log_origin = NoOrigin

\* variant: the CDROM is ejected before the image reference is validated
ValidateHref_after_eject ==
    /\ pc = "validate_href"
    /\ \E ok \in BOOLEAN :
        /\ trace' = trace \o <<Event("eject", TRUE), Event("validate_href", ok)>>
        /\ cdrom' = "empty"
        /\ IF ok
           THEN pc' = "connect" /\ exc' = exc
           ELSE /\ pc' = "done"
                /\ exc' = HpsumOperationError("ImageRefValidationFailed: href")
    /\ UNCHANGED <<by_label, vmedia_device_file, dir_exists, mounted,
                   log_exists, log_data, exit_code, result, returned,
                   parsed, log_origin, other, own_log>>

\* utils.validate_href(hpsum_update_iso)
ValidateHref ==
    /\ pc = "validate_href"
    /\ \E ok \in BOOLEAN :
        /\ trace' = Append(trace, Event("validate_href", ok))
        /\ IF ok
           THEN pc' = "connect" /\ exc' = exc
           ELSE /\ pc' = "done"
                /\ exc' = HpsumOperationError("ImageRefValidationFailed: href")
    /\ UNCHANGED <<cdrom, by_label, vmedia_device_file, dir_exists, mounted,
                   log_exists, log_data, exit_code, result, returned,
                   parsed, log_origin, other, own_log>>

\* ilo_object = client.IloClient(...)
Connect ==
    /\ pc = "connect"
    /\ \E ok \in BOOLEAN :
        /\ trace' = Append(trace, Event("connect", ok))
        /\ IF ok
           THEN pc' = "eject" /\ exc' = exc
           ELSE pc' = "done" /\ exc' = IloConnectionError
    /\ UNCHANGED <<cdrom, by_label, vmedia_device_file, dir_exists, mounted,
                   log_exists, log_data, exit_code, result, returned,
                   parsed, log_origin, other, own_log>>

\* variant: the iLO error of the eject is wrapped in an operation error
EjectVirtualMedia_wrapped ==
    /\ pc = "eject"
    /\ \E e \in {NoExc, IloError, IloConnectionError} :
        /\ trace' = Append(trace, Event("eject", e = NoExc))
        /\ IF e = NoExc
           THEN pc' = "insert" /\ exc' = exc /\ cdrom' = "empty"
           ELSE /\ pc' = "done" /\ cdrom' = cdrom
                /\ exc' = HpsumOperationError(e.reason)
    /\ UNCHANGED <<by_label, vmedia_device_file, dir_exists, mounted,
                   log_exists, log_data, exit_code, result, returned,
                   parsed, log_origin, other, own_log>>

\* ilo_object.eject_virtual_media('CDROM')
EjectVirtualMedia ==
    /\ pc = "eject"
    /\ \E e \in {NoExc, IloError, IloConnectionError} :
        /\ trace' = Append(trace, Event("eject", e = NoExc))
        /\ IF e = NoExc
           THEN pc' = "insert" /\ exc' = exc /\ cdrom' = "empty"
           ELSE pc' = "done" /\ exc' = e /\ cdrom' = cdrom
    /\ UNCHANGED <<by_label, vmedia_device_file, dir_exists, mounted,
                   log_exists, log_data, exit_code, result, returned,
                   parsed, log_origin, other, own_log>>

\* variant: a failed insert is retried once before the error is raised
InsertVirtualMedia_retry ==
    /\ pc = "insert"
    /\ \E e \in {NoExc, IloError, IloConnectionError} :
        /\ trace' = Append(trace, Event("insert", e = NoExc))
        /\ IF e = NoExc
           THEN pc' = "sleep" /\ exc' = exc /\ cdrom' = "iso"
           ELSE IF \E i \in 1..Len(trace) : trace[i] = Event("insert", FALSE)
           THEN pc' = "done" /\ exc' = e /\ cdrom' = cdrom
           ELSE pc' = "insert" /\ exc' = exc /\ cdrom' = cdrom
    /\ UNCHANGED <<by_label, vmedia_device_file, dir_exists, mounted,
                   log_exists, log_data, exit_code, result, returned,
                   parsed, log_origin, other, own_log>>

\* ilo_object.insert_virtual_media(hpsum_update_iso, 'CDROM')
InsertVirtualMedia ==
    /\ pc = "insert"
    /\ \E e \in {NoExc, IloError, IloConnectionError} :
        /\ trace' = Append(trace, Event("insert", e = NoExc))
        /\ IF e = NoExc
           THEN pc' = "sleep" /\ exc' = exc /\ cdrom' = "iso"
           ELSE pc' = "done" /\ exc' = e /\ cdrom' = cdrom
    /\ UNCHANGED <<by_label, vmedia_device_file, dir_exists, mounted,
                   log_exists, log_data, exit_code, result, returned,
                   parsed, log_origin, other, own_log>>

\* time.sleep(5): the OS publishes whatever labels it has detected
Sleep ==
    /\ pc = "sleep"
    /\ by_label' \in Listings
    /\ trace' = Append(trace, Event("sleep", TRUE))
    /\ pc' = "scan"
    /\ UNCHANGED <<cdrom, vmedia_device_file, dir_exists, mounted,
                   log_exists, log_data, exit_code, result, exc, returned,
                   parsed, log_origin, other, own_log>>

RECURSIVE ScanLoop(_, _)
\* the for loop over os.listdir: every match overwrites the variable
ScanLoop(files, device_file) ==
    IF files = <<>> THEN device_file
    ELSE IF FnmatchSPP(Head(files))
         THEN ScanLoop(Tail(files), Str("/dev/disk/by-label/" \o Head(files)))
         ELSE ScanLoop(Tail(files), device_file)

\* for file in os.listdir(vmedia_device_dir): ...
Scan ==
    /\ pc = "scan"
    /\ vmedia_device_file' = ScanLoop(by_label, vmedia_device_file)
    /\ trace' = Append(trace, Event("scan", TRUE))
    /\ pc' = "check_exists"
    /\ UNCHANGED <<cdrom, by_label, dir_exists, mounted,
                   log_exists, log_data, exit_code, result, exc, returned,
                   parsed, log_origin, other, own_log>>

\* if not os.path.exists(vmedia_device_file): raise HpsumOperationError
CheckExists ==
    /\ pc = "check_exists"
    /\ IF vmedia_device_file = Unbound
       THEN pc' = "done" /\ exc' = UnboundLocalError
       ELSE \E exists \in BOOLEAN :
               IF exists
               THEN pc' = "verify_checksum" /\ exc' = exc
               ELSE /\ pc' = "done"
                    /\ exc' = HpsumOperationError(
                           "Unable to find the virtual media device for HPSUM")
    /\ UNCHANGED <<cdrom, by_label, vmedia_device_file, dir_exists, mounted,
                   log_exists, log_data, exit_code, result, returned, trace,
                   parsed, log_origin, other, own_log>>

\* variant: the verification failure is swallowed and the run goes on
VerifyChecksum_swallow ==
    /\ pc = "verify_checksum"
    /\ \E ok \in BOOLEAN :
        /\ trace' = Append(trace, Event("verify_image_checksum", ok))
        /\ pc' = "mkdtemp" /\ exc' = exc
    /\ UNCHANGED <<cdrom, by_label, vmedia_device_file, dir_exists, mounted,
                   log_exists, log_data, exit_code, result, returned,
                   parsed, log_origin, other, own_log>>

\* utils.verify_image_checksum(vmedia_device_file, expected_checksum)
VerifyChecksum ==
    /\ pc = "verify_checksum"
    /\ \E ok \in BOOLEAN :
        /\ trace' = Append(trace, Event("verify_image_checksum", ok))
        /\ IF ok
           THEN pc' = "mkdtemp" /\ exc' = exc
           ELSE /\ pc' = "done"
                /\ exc' = HpsumOperationError("ImageRefValidationFailed: checksum")
    /\ UNCHANGED <<cdrom, by_label, vmedia_device_file, dir_exists, mounted,
                   log_exists, log_data, exit_code, result, returned,
                   parsed, log_origin, other, own_log>>

\* vmedia_mount_point = tempfile.mkdtemp()
Mkdtemp ==
    /\ pc = "mkdtemp"
    /\ dir_exists' = TRUE
    /\ trace' = Append(trace, Event("mkdtemp", TRUE))
    /\ pc' = "mount"
    /\ UNCHANGED <<cdrom, by_label, vmedia_device_file, mounted,
                   log_exists, log_data, exit_code, result, exc, returned,
                   parsed, log_origin, other, own_log>>

\* variant: the mount is run before the try block, so its failure leaves
\* update_firmware without passing through the finally block
Mount_outside_try ==
    /\ pc = "mount"
    /\ \E ok \in BOOLEAN :
        /\ trace' = Append(trace, Event("mount", ok))
        /\ mounted' = ok
        /\ IF ok
           THEN pc' = "execute_hpsum" /\ exc' = exc
           ELSE /\ pc' = "done"
                /\ exc' = HpsumOperationError(
                       "Unable to mount virtual media device "
                       \o vmedia_device_file.s \o ": "
                       \o ProcessExecutionError("mount", 32))
    /\ UNCHANGED <<cdrom, by_label, vmedia_device_file, dir_exists,
                   log_exists, log_data, exit_code, result, returned,
                   parsed, log_origin, other, own_log>>

\* variant: the mount failure is not raised and the utility is run anyway
Mount_unchecked ==
    /\ pc = "mount"
    /\ \E ok \in BOOLEAN :
        /\ trace' = Append(trace, Event("mount", ok))
        /\ mounted' = ok
        /\ pc' = "execute_hpsum" /\ exc' = exc
    /\ UNCHANGED <<cdrom, by_label, vmedia_device_file, dir_exists,
                   log_exists, log_data, exit_code, result, returned,
                   parsed, log_origin, other, own_log>>

\* processutils.execute("mount", vmedia_device_file, vmedia_mount_point)
Mount ==
    /\ pc = "mount"
    /\ \E ok \in BOOLEAN :
        /\ trace' = Append(trace, Event("mount", ok))
        /\ mounted' = ok
        /\ IF ok
           THEN pc' = "execute_hpsum" /\ exc' = exc
           ELSE /\ pc' = "finally"
                /\ exc' = HpsumOperationError(
                       "Unable to mount virtual media device "
                       \o vmedia_device_file.s \o ": "
                       \o ProcessExecutionError("mount", 32))
    /\ UNCHANGED <<cdrom, by_label, vmedia_device_file, dir_exists,
                   log_exists, log_data, exit_code, result, returned,
                   parsed, log_origin, other, own_log>>

\* result = _execute_hpsum(hpsum_file_path, components=components)
\* the process runs, leaves a log or not, and exits with some code
ExecuteHpsum ==
    /\ pc = "execute_hpsum"
    /\ \E code \in ExitCodes, exists \in BOOLEAN, data \in Logs :
        /\ ~exists => data = ""
        /\ exit_code' = code
        /\ log_exists' = exists
        /\ log_data' = data
        /\ own_log' = [exists |-> exists, data |-> data]
        /\ trace' = Append(trace, Event("hpsum", code = 0))
        /\ LET hpsum_file_path == vmedia_mount_point \o "/" \o HPSUM_LOCATION
               out == _execute_hpsum(hpsum_file_path, code, exists, data)
           IN IF out.raised
              THEN pc' = "finally" /\ exc' = out.error /\ result' = result
              ELSE pc' = "umount" /\ exc' = exc /\ result' = out.value
    /\ UNCHANGED <<cdrom, by_label, vmedia_device_file, dir_exists, mounted,
                   returned,
                   parsed, log_origin, other>>

\* variant: the unmount is run with processutils.execute, whose failure
\* is raised as an operation error
Umount_raising ==
    /\ pc = "umount"
    /\ \E ok \in BOOLEAN :
        /\ trace' = Append(trace, Event("umount", ok))
        /\ mounted' = IF ok THEN FALSE ELSE mounted
        /\ exc' = IF ok THEN exc
                  ELSE HpsumOperationError(ProcessExecutionError("umount", 32))
    /\ pc' = "finally"
    /\ UNCHANGED <<cdrom, by_label, vmedia_device_file, dir_exists,
                   log_exists, log_data, exit_code, result, returned,
                   parsed, log_origin, other, own_log>>

\* processutils.trycmd("umount", vmedia_mount_point): failure is swallowed
Umount ==
    /\ pc = "umount"
    /\ \E ok \in BOOLEAN :
        /\ trace' = Append(trace, Event("umount", ok))
        /\ mounted' = IF ok THEN FALSE ELSE mounted
    /\ pc' = "finally"
    /\ UNCHANGED <<cdrom, by_label, vmedia_device_file, dir_exists,
                   log_exists, log_data, exit_code, result, exc, returned,
                   parsed, log_origin, other, own_log>>

\* finally: shutil.rmtree(vmedia_mount_point, ignore_errors=True)
\* a directory that is still a mount point cannot be removed (EBUSY) and
\* the error is ignored; then the pending exception, if any, is re-raised
Rmtree ==
    /\ pc = "finally"
    /\ trace' = Append(trace, Event("rmtree", ~mounted))
    /\ dir_exists' = IF mounted THEN dir_exists ELSE FALSE
    /\ pc' = IF exc = NoExc THEN "return" ELSE "done"
    /\ UNCHANGED <<cdrom, by_label, vmedia_device_file, mounted,
                   log_exists, log_data, exit_code, result, exc, returned,
                   parsed, log_origin, other, own_log>>

\* return result
Return ==
    /\ pc = "return"
    /\ returned' = result
    /\ pc' = "done"
    /\ UNCHANGED <<cdrom, by_label, vmedia_device_file, dir_exists, mounted,
                   log_exists, log_data, exit_code, result, exc, trace,
                   parsed, log_origin, other, own_log>>

Next ==
    \/ ValidateHref
    \/ Connect
    \/ EjectVirtualMedia
    \/ InsertVirtualMedia
    \/ Sleep
    \/ Scan
    \/ CheckExists
    \/ VerifyChecksum
    \/ Mkdtemp
    \/ Mount
    \/ ExecuteHpsum
    \/ Umount
    \/ Rmtree
    \/ Return

Spec == Init /\ [][Next]_vars

----------------------------------------------------------------------------
(* Vocabulary of the properties.                                           *)

Did(op) == \E i \in 1..Len(trace) : trace[i].op = op
DidOk(op) == \E i \in 1..Len(trace) : trace[i] = Event(op, TRUE)
Failed(op) == \E i \in 1..Len(trace) : trace[i] = Event(op, FALSE)
\* every `op` in the trace comes after a successful `before`
Precedes(before, op) ==
    \A i \in 1..Len(trace) :
        trace[i].op = op => \E j \in 1..(i - 1) : trace[j] = Event(before, TRUE)

StartsWith(s, prefix) ==
    Len(s) >= Len(prefix) /\ SubSeq(s, 1, Len(prefix)) = prefix

Recognized == {0, 1, 3, 253}
HrefFailure == HpsumOperationError("ImageRefValidationFailed: href")
ChecksumFailure == HpsumOperationError("ImageRefValidationFailed: checksum")
NotFound == HpsumOperationError("Unable to find the virtual media device for HPSUM")
NoMatch == \A i \in 1..Len(by_label) : ~FnmatchSPP(by_label[i])

----------------------------------------------------------------------------
(* Properties of update_firmware.                                          *)

\* C1: a run that created the temporary mount directory has ended (returned
\* or raised) only with that directory gone.
C1_DirGoneAtExit ==
    (pc = "done" /\ Did("mkdtemp")) => ~dir_exists

\* C2: in a run whose mount succeeded, the removal of the temporary directory
\* is always preceded by an unmount attempt.
C2_UmountBeforeRmtree ==
    \A i \in 1..Len(trace) :
        (trace[i].op = "rmtree" /\ DidOk("mount"))
            => \E j \in 1..(i - 1) : trace[j].op = "umount"

\* C3: once the utility has exited with a code outside {0, 1, 3, 253} the
\* classifier gives None, no result is ever bound or returned, and the error
\* in flight (and finally raised to the caller) is an HpsumOperationError
\* whose reason embeds the process failure.
C3_UnrecognizedExitRaises ==
    (exit_code # NotRun /\ exit_code \notin Recognized) =>
        /\ _parse_hpsum_ouput(exit_code, log_exists, log_data) = None
        /\ result = Unbound
        /\ returned = Unbound
        /\ pc \in {"finally", "done"}
        /\ exc.type = "HpsumOperationError"
        /\ Find(exc.reason,
                ProcessExecutionError(vmedia_mount_point \o "/" \o HPSUM_LOCATION,
                                      exit_code)) >= 0

C3_Witness ==
    pc = "done" /\ exit_code = 42 /\ exc.type = "HpsumOperationError"

\* C4: once the utility has exited with 1, 3 or 253, log or no log, no error
\* is in flight and `result` is the classifier's non-empty string; when the
\* run has ended that string is what was returned, and for exit code 1 with
\* a log it begins with the restart-required summary.
C4_ClassifiedExitReturns ==
    (exit_code \in {1, 3, 253}) =>
        /\ exc = NoExc
        /\ result.t = "str" /\ result.s # ""
        /\ result = _parse_hpsum_ouput(exit_code, log_exists, log_data)
        /\ pc = "done" => returned = result
        /\ (exit_code = 1 /\ log_exists) =>
              StartsWith(result.s,
                  "Summary: The smart component was installed successfully, but the system must be restarted.")

C4_Witness ==
    /\ pc = "done" /\ exit_code = 1 /\ log_exists
    /\ returned.t = "str"
    /\ StartsWith(returned.s, "Summary: The smart component was installed")

\* C5: a run whose utility exited with code 0 returns a present value, the
\* output of the process, never None.
C5_ZeroExitReturnsValue ==
    (pc = "done" /\ exit_code = 0) => (returned.t = "str" /\ returned.s # "")

\* C6: the directory is created and the mount attempted only after a
\* successful checksum verification; after a failed verification no
\* directory exists and no mount was attempted.
C6_ChecksumBeforeMount ==
    /\ Precedes("verify_image_checksum", "mkdtemp")
    /\ Precedes("verify_image_checksum", "mount")
    /\ Failed("verify_image_checksum") =>
          (~Did("mkdtemp") /\ ~Did("mount") /\ ~dir_exists /\ ~mounted)

C6_Witness ==
    DidOk("verify_image_checksum") /\ Did("mount")

\* C7: the utility is invoked only with a device path bound by the scan and
\* after a successful mount; after a failed discovery or a failed mount it
\* is never invoked.
C7_UtilityNeedsMountedDevice ==
    /\ Did("hpsum") => (vmedia_device_file.t = "str" /\ Did("scan"))
    /\ Precedes("mount", "hpsum")
    /\ (Failed("mount") \/ exc \in {UnboundLocalError, NotFound}) => ~Did("hpsum")

C7_Witness ==
    Did("hpsum") /\ DidOk("mount")

\* C8: a run that ended after a scan of a directory without any SPP* entry
\* raised HpsumOperationError (device not found) and did no checksum
\* verification, mount or utility invocation.
C8_NoMatchRaisesOperationError ==
    (pc = "done" /\ Did("scan") /\ NoMatch) =>
        /\ exc = NotFound
        /\ ~Did("verify_image_checksum") /\ ~Did("mount") /\ ~Did("hpsum")

\* C9 (as stated): a run that ended with a validation error, of the image
\* reference or of the checksum, has performed neither eject nor insert.
C9_ValidationBeforeMutation ==
    (pc = "done" /\ exc \in {HrefFailure, ChecksumFailure}) =>
        (~Did("eject") /\ ~Did("insert") /\ cdrom = "other")

\* C9 (amended): a run that ended with an image reference validation error
\* has performed neither eject nor insert; a run that ended with a checksum
\* validation error has performed both, and has created no directory and
\* attempted no mount.
C9_ValidationErrorPlacement ==
    /\ (pc = "done" /\ exc = HrefFailure) =>
          (~Did("eject") /\ ~Did("insert") /\ cdrom = "other")
    /\ (pc = "done" /\ exc = ChecksumFailure) =>
          /\ DidOk("eject") /\ DidOk("insert") /\ cdrom = "iso"
          /\ ~Did("mkdtemp") /\ ~Did("mount")

C9_Witness ==
    pc = "done" /\ exc = ChecksumFailure

\* C10: every run that ended with an error ended with an HpsumOperationError
\* carrying a reason.
C10_SingleErrorCategory ==
    (pc = "done" /\ exc # NoExc) =>
        (exc.type = "HpsumOperationError" /\ exc.reason # "")


\* C14: a run whose unmount failed has no error in flight, goes on to attempt
\* the removal of the temporary directory, and when it has ended it has
\* returned exactly what the executor produced for the exit code and log.
C14_UmountFailureIgnored ==
    Failed("umount") =>
        /\ exc = NoExc
        /\ pc \in {"finally", "return", "done"}
        /\ pc \in {"return", "done"} => Did("rmtree")
        /\ result = _execute_hpsum(vmedia_mount_point \o "/" \o HPSUM_LOCATION,
                                   exit_code, log_exists, log_data).value
        /\ pc = "done" => returned = result

C14_Witness ==
    pc = "done" /\ Failed("umount") /\ Did("rmtree") /\ returned.t = "str"


\* number of times `op` was performed
Count(op) == Cardinality({i \in 1..Len(trace) : trace[i].op = op})

\* C16: the removal of the temporary directory is never attempted twice; a
\* run that created the directory has attempted it exactly once when it
\* ends, and a run that has not created the directory has never attempted it.
C16_RmtreeExactlyOnce ==
    /\ Count("rmtree") <= 1
    /\ Count("mkdtemp") <= 1
    /\ (pc = "done" /\ Did("mkdtemp")) => Count("rmtree") = 1
    /\ ~Did("mkdtemp") => Count("rmtree") = 0

C16_Witness ==
    pc = "done" /\ Failed("mount") /\ Count("rmtree") = 1


\* the steps of update_firmware up to the utility, in the order of the code
StepOrder == <<"validate_href", "connect", "eject", "insert", "sleep", "scan",
               "verify_image_checksum", "mkdtemp", "mount", "hpsum">>

IsStep(e) == \E k \in 1..Len(StepOrder) : StepOrder[k] = e.op

\* C17: the steps performed so far are an initial part of the fixed order
\* (so each was performed at most once and none out of order), and every
\* step but the last performed one succeeded.
C17_FixedStepOrder ==
    LET steps == SelectSeq(trace, IsStep)
    IN /\ Len(steps) <= Len(StepOrder)
       /\ \A i \in 1..Len(steps) :
             /\ steps[i].op = StepOrder[i]
             /\ i < Len(steps) => steps[i].ok

C17_Witness ==
    pc = "done" /\ Did("hpsum") /\ Len(SelectSeq(trace, IsStep)) = Len(StepOrder)


\* C18: after a failed IloClient construction, eject or insert the run has
\* ended with the iLO error itself (IloConnectionError for the connection,
\* IloError or IloConnectionError for eject and insert), not an operation
\* error, and no scan, verification, directory creation, mount or utility
\* invocation has been performed.
C18_ManagementErrorUnchanged ==
    /\ Failed("connect") => exc = IloConnectionError
    /\ (Failed("eject") \/ Failed("insert")) =>
          exc \in {IloError, IloConnectionError}
    /\ (Failed("connect") \/ Failed("eject") \/ Failed("insert")) =>
          /\ pc = "done"
          /\ returned = Unbound
          /\ \A op \in {"sleep", "scan", "verify_image_checksum", "mkdtemp",
                        "mount", "hpsum", "umount", "rmtree"} : ~Did(op)

C18_Witness ==
    pc = "done" /\ Failed("insert") /\ exc = IloError


\* index of the first entry of the listing that matches 'SPP*'
FirstMatchIndex ==
    CHOOSE i \in 1..Len(by_label) :
        /\ FnmatchSPP(by_label[i])
        /\ \A j \in 1..(i - 1) : ~FnmatchSPP(by_label[j])

\* C19: after the scan of a listing with at least one 'SPP*' entry, the
\* candidate device is the first matching entry in scan order (and hence
\* never a non-matching entry).
C19_FirstMatchSelected ==
    (Did("scan") /\ ~NoMatch) =>
        vmedia_device_file = Str("/dev/disk/by-label/" \o by_label[FirstMatchIndex])

\* C20: whenever the removal of the temporary directory is attempted after a
\* successful mount, a successful unmount has been performed before it.
C20_UnmountedBeforeRmtree ==
    \A i \in 1..Len(trace) :
        (trace[i].op = "rmtree" /\ DidOk("mount"))
            => \E j \in 1..(i - 1) : trace[j] = Event("umount", TRUE)


----------------------------------------------------------------------------
(* The classifier alone: _parse_hpsum_ouput called directly, once or more, *)
(* on an exit code and a log file drawn from the bounded sets below.       *)

\* text of a component section of the log ("" is an empty section)
SegmentTexts == {"", "Component A\nDeployment Result: Success",
                 "Component B\nDeployment Result: Update returned an error",
                 "Success"}

\* text before "Deployed Components:" and after "Exit status:"
Prefixes == {"", "Inventory started\n\nInventory completed\n"}
Suffixes == {"", " 1\n",
             " 0\n\nDeployed Components:\n\nSuccess\n\nExit status: 1\n"}

SegmentLists == UNION {[1..n -> SegmentTexts] : n \in 0..MaxSegments}

RECURSIVE Join(_, _)
\* sep.join(segs)
Join(segs, sep) ==
    IF segs = <<>> THEN ""
    ELSE IF Len(segs) = 1 THEN Head(segs)
    ELSE Head(segs) \o sep \o Join(Tail(segs), sep)

\* a log with the given sections, separated by blank lines, between the markers
MakeLog(pre, segs, post) ==
    pre \o "Deployed Components:" \o Join(segs, "\n\n") \o "Exit status:" \o post

InitParse ==
    /\ pc = "parse"
    /\ cdrom = "other"
    /\ by_label = <<>>
    /\ vmedia_device_file = Unbound
    /\ dir_exists = FALSE
    /\ mounted = FALSE
    /\ exit_code \in ExitCodes
    /\ \/ log_exists = FALSE /\ log_data = "" /\ log_origin = NoOrigin
       \/ log_exists = TRUE /\ log_data \in Logs /\ log_origin = NoOrigin
       \/ \E pre \in Prefixes, segs \in SegmentLists, post \in Suffixes :
             /\ log_exists = TRUE
             /\ log_data = MakeLog(pre, segs, post)
             /\ log_origin = [structured |-> TRUE, segs |-> segs]
    /\ result = Unbound
    /\ exc = NoExc
    /\ returned = Unbound
    /\ trace = <<>>
    /\ own_log = NoLog
    /\ other = FreshRun
    /\ parsed = <<>>

\* variant: the log is opened for writing, which truncates it
CallParse_truncating ==
    /\ pc = "parse"
    /\ Len(parsed) < MaxParseCalls
    /\ parsed' = Append(parsed, _parse_hpsum_ouput(exit_code, log_exists, log_data))
    /\ log_data' = ""
    /\ UNCHANGED <<pc, cdrom, by_label, vmedia_device_file, dir_exists, mounted,
                   log_exists, exit_code, result, exc, returned, trace,
                   own_log, other, log_origin>>

\* _parse_hpsum_ouput(exit_code): only reads OUTPUT_FILE
CallParse ==
    /\ pc = "parse"
    /\ Len(parsed) < MaxParseCalls
    /\ parsed' = Append(parsed, _parse_hpsum_ouput(exit_code, log_exists, log_data))
    /\ UNCHANGED <<pc, cdrom, by_label, vmedia_device_file, dir_exists, mounted,
                   log_exists, log_data, exit_code, result, exc, returned, trace,
                   own_log, other, log_origin>>

NextParse == CallParse

SpecParse == InitParse /\ [][NextParse]_vars

\* C11: for exit code 3 every call of the classifier returns exactly the
\* up-to-date summary, whether the log is absent, empty or has any content.
C11_Code3FixedSummary ==
    (pc = "parse" /\ exit_code = 3) =>
        \A i \in 1..Len(parsed) :
            parsed[i] = Str("Summary: The smart component was not installed. Node is already up-to-date.")

C11_Witness ==
    /\ pc = "parse" /\ exit_code = 3 /\ Len(parsed) >= 1
    /\ log_exists /\ Find(log_data, "Success") >= 0

\* the sections of a generated log that are not empty and (do not) contain
\* "Success"
SucceededSections ==
    {k \in 1..Len(log_origin.segs) :
        log_origin.segs[k] # "" /\ Find(log_origin.segs[k], "Success") >= 0}
FailedSections ==
    {k \in 1..Len(log_origin.segs) :
        log_origin.segs[k] # "" /\ Find(log_origin.segs[k], "Success") < 0}

\* C12: for exit codes 0, 1 and 253 and a log written with given sections
\* between the two markers, every call of the classifier returns the summary
\* with the code's description, Success = the number of non-empty sections
\* containing "Success", Failed = the number of the other non-empty sections
\* and Total = their sum.
C12_SegmentCounts ==
    (pc = "parse" /\ exit_code \in {0, 1, 253} /\ log_exists /\ log_origin.structured) =>
        \A i \in 1..Len(parsed) :
            parsed[i] = Str("Summary: " \o EXIT_CODE_TO_STRING(exit_code)
                            \o " Status of updated components: Total: "
                            \o ToString(Cardinality(SucceededSections)
                                        + Cardinality(FailedSections))
                            \o " Success: " \o ToString(Cardinality(SucceededSections))
                            \o " Failed: " \o ToString(Cardinality(FailedSections))
                            \o ".")

C12_Witness ==
    /\ pc = "parse" /\ exit_code = 0 /\ log_exists /\ log_origin.structured
    /\ Cardinality(SucceededSections) = 1 /\ Cardinality(FailedSections) = 1
    /\ Len(parsed) >= 1
    /\ Find(parsed[1].s, "Total: 2 Success: 1 Failed: 1.") >= 0

\* C13: for exit codes 0, 1 and 253 and no log file every call of the
\* classifier returns "UPDATE STATUS: UNKNOWN"; and any two calls on the same
\* exit code and log return the same value.
C13_UnknownAndIdempotent ==
    pc = "parse" =>
        /\ (exit_code \in {0, 1, 253} /\ ~log_exists) =>
              \A i \in 1..Len(parsed) : parsed[i] = Str("UPDATE STATUS: UNKNOWN")
        /\ \A i, j \in 1..Len(parsed) : parsed[i] = parsed[j]

C13_Witness ==
    pc = "parse" /\ exit_code = 0 /\ ~log_exists /\ Len(parsed) = 2


----------------------------------------------------------------------------
(* Two runs of update_firmware on one host, interleaved.  The variables    *)
(* pc .. own_log hold the locals of the run that is executing, `other`     *)
(* those of the suspended run; OUTPUT_FILE (log_exists, log_data) and the  *)
(* by-label directory are the host's and are common to both.  The steps    *)
(* are those of the single run, except that the exit of the hpsum process  *)
(* and the classification of its exit code are two steps, between which    *)
(* the other run may be scheduled.                                         *)

\* logs the hpsum process of either run may leave
TwoRunLogs ==
    {MakeLog("", segs, "") :
        segs \in UNION {[1..n -> {"Success", "Failed"}] : n \in 0..MaxTwoRunSegments}}

\* the locals of the executing run
ThisRun ==
    [pc |-> pc, cdrom |-> cdrom, vmedia_device_file |-> vmedia_device_file,
     dir_exists |-> dir_exists, mounted |-> mounted, exit_code |-> exit_code,
     result |-> result, exc |-> exc, returned |-> returned,
     trace |-> trace, own_log |-> own_log]

\* processutils.execute(hpsum_file_path, ...): the process runs, leaves a log
\* or not, and exits with some code
RunHpsumProcess ==
    /\ pc = "execute_hpsum"
    /\ \E code \in ExitCodes, exists \in BOOLEAN, data \in TwoRunLogs \cup {""} :
        /\ exists <=> data # ""
        /\ exit_code' = code
        /\ log_exists' = exists
        /\ log_data' = data
        /\ own_log' = [exists |-> exists, data |-> data]
        /\ trace' = Append(trace, Event("hpsum", code = 0))
    /\ pc' = "classify"
    /\ UNCHANGED <<cdrom, by_label, vmedia_device_file, dir_exists, mounted,
                   result, exc, returned, parsed, log_origin, other>>

\* the rest of _execute_hpsum: classify the exit code against OUTPUT_FILE
Classify ==
    /\ pc = "classify"
    /\ LET hpsum_file_path == vmedia_mount_point \o "/" \o HPSUM_LOCATION
           out == _execute_hpsum(hpsum_file_path, exit_code, log_exists, log_data)
       IN IF out.raised
          THEN pc' = "finally" /\ exc' = out.error /\ result' = result
          ELSE pc' = "umount" /\ exc' = exc /\ result' = out.value
    /\ UNCHANGED <<cdrom, by_label, vmedia_device_file, dir_exists, mounted,
                   log_exists, log_data, exit_code, returned, trace,
                   own_log, parsed, log_origin, other>>

\* the scheduler suspends the executing run and resumes the other one
Switch ==
    /\ pc' = other.pc
    /\ cdrom' = other.cdrom
    /\ vmedia_device_file' = other.vmedia_device_file
    /\ dir_exists' = other.dir_exists
    /\ mounted' = other.mounted
    /\ exit_code' = other.exit_code
    /\ result' = other.result
    /\ exc' = other.exc
    /\ returned' = other.returned
    /\ trace' = other.trace
    /\ own_log' = other.own_log
    /\ other' = ThisRun
    /\ UNCHANGED <<by_label, log_exists, log_data, parsed, log_origin>>

NextTwo ==
    \/ ValidateHref
    \/ Connect
    \/ EjectVirtualMedia
    \/ InsertVirtualMedia
    \/ Sleep
    \/ Scan
    \/ CheckExists
    \/ VerifyChecksum
    \/ Mkdtemp
    \/ Mount
    \/ RunHpsumProcess
    \/ Classify
    \/ Umount
    \/ Rmtree
    \/ Return
    \/ Switch

SpecTwo == Init /\ [][NextTwo]_vars

\* what a run that has ended returns when it runs alone: the classification
\* of its exit code against the log its own hpsum process left
AsIfAlone(run) ==
    (run.pc = "done" /\ run.exit_code \in {1, 3, 253}) =>
        run.returned = _parse_hpsum_ouput(run.exit_code, run.own_log.exists,
                                          run.own_log.data)

\* C15: with two runs interleaved, each run that has ended with a classified
\* exit code has returned what it returns when it runs alone, the summary of
\* the log its own utility wrote.
C15_RunsIndependent ==
    AsIfAlone(ThisRun) /\ AsIfAlone(other)

====
